---- MODULE Spec2Model ----
(***************************************************************************)
(* Model of src/testing.py: the in-memory context log                      *)
(* (GLOBAL_PERSISTENT_CONTEXT, PMLL, persistent_memory_logic_loop) and the *)
(* SHA-256 integrity helpers (secure_data, verify_data).                   *)
(*                                                                         *)
(* A Python str is a sequence of Unicode code points, a bytes object a     *)
(* sequence of numbers in 0..255.  A 32-bit word of the hash is a sequence *)
(* of 32 bits, most significant first.                                     *)
(***************************************************************************)
EXTENDS Integers, Sequences, FiniteSets, TLC

\* ------------------------------------------------------------------------
\* Bounds of the model
\* ------------------------------------------------------------------------

\* most entries the log holds in a checked run
MaxLog == 3

\* most PMLL calls one concurrent caller makes
MaxCallsPerCaller == 2

\* number of concurrent callers
NumCallers == 2

\* ------------------------------------------------------------------------
\* str.encode(): UTF-8
\* ------------------------------------------------------------------------

UnicodeEncodeError == "UnicodeEncodeError"
NoException == "None"

IsSurrogate(cp) == cp >= 55296 /\ cp <= 57343

EncodeCodePoint(cp) ==
  IF cp < 128 THEN <<cp>>
  ELSE IF cp < 2048 THEN <<192 + (cp \div 64), 128 + (cp % 64)>>
  ELSE IF cp < 65536
       THEN <<224 + (cp \div 4096), 128 + ((cp \div 64) % 64), 128 + (cp % 64)>>
  ELSE <<240 + (cp \div 262144), 128 + ((cp \div 4096) % 64),
         128 + ((cp \div 64) % 64), 128 + (cp % 64)>>

\* TRUE iff data.encode() succeeds: UTF-8 has no encoding of a lone surrogate
Encodable(data) == \A i \in 1..Len(data) : ~IsSurrogate(data[i])

RECURSIVE EncodeFrom(_, _)
EncodeFrom(data, i) ==
  IF i > Len(data) THEN <<>>
  ELSE EncodeCodePoint(data[i]) \o EncodeFrom(data, i + 1)

\* the bytes of data.encode(), for an encodable data
encode(data) == EncodeFrom(data, 1)

\* ------------------------------------------------------------------------
\* hashlib.sha256 (FIPS 180-4), on 32-bit words held as bit sequences
\* ------------------------------------------------------------------------

Pow2(n) == 2 ^ n

\* a function on 1..n as the sequence it is (TLC then holds its elements)
AsSeq(f) == f \o <<>>

Bits(n, width) == AsSeq([i \in 1..width |-> (n \div Pow2(width - i)) % 2])

\* value of the 16 bits of w that follow position off
Half(w, off) ==
    w[off + 1] * 32768 + w[off + 2] * 16384 + w[off + 3] * 8192
  + w[off + 4] * 4096 + w[off + 5] * 2048 + w[off + 6] * 1024
  + w[off + 7] * 512 + w[off + 8] * 256 + w[off + 9] * 128
  + w[off + 10] * 64 + w[off + 11] * 32 + w[off + 12] * 16
  + w[off + 13] * 8 + w[off + 14] * 4 + w[off + 15] * 2 + w[off + 16]

Hi(w) == Half(w, 0)
Lo(w) == Half(w, 16)

WordOf(hi, lo) == Bits(hi % 65536, 16) \o Bits(lo % 65536, 16)

HalvesToWord(p) == WordOf(p[1], p[2])

\* sum of the words of ws modulo 2^32
RECURSIVE SumHi(_, _)
SumHi(ws, i) == IF i > Len(ws) THEN 0 ELSE Hi(ws[i]) + SumHi(ws, i + 1)

RECURSIVE SumLo(_, _)
SumLo(ws, i) == IF i > Len(ws) THEN 0 ELSE Lo(ws[i]) + SumLo(ws, i + 1)

AddWords(ws) ==
  LET lo == SumLo(ws, 1)
      hi == SumHi(ws, 1) + (lo \div 65536)
  IN  WordOf(hi, lo)

Xor3(a, b, c) == AsSeq([i \in 1..32 |-> (a[i] + b[i] + c[i]) % 2])

RotR(w, n) == AsSeq([i \in 1..32 |-> w[((i - 1 - n + 32) % 32) + 1]])

ShR(w, n) == AsSeq([i \in 1..32 |-> IF i <= n THEN 0 ELSE w[i - n]])

Ch(x, y, z) == AsSeq([i \in 1..32 |-> IF x[i] = 1 THEN y[i] ELSE z[i]])

Maj(x, y, z) == AsSeq([i \in 1..32 |-> IF x[i] + y[i] + z[i] >= 2 THEN 1 ELSE 0])

BigSigma0(x) == Xor3(RotR(x, 2), RotR(x, 13), RotR(x, 22))
BigSigma1(x) == Xor3(RotR(x, 6), RotR(x, 11), RotR(x, 25))
SmallSigma0(x) == Xor3(RotR(x, 7), RotR(x, 18), ShR(x, 3))
SmallSigma1(x) == Xor3(RotR(x, 17), RotR(x, 19), ShR(x, 10))

\* round constants, each as <<high 16 bits, low 16 bits>>
SHA256_K ==
  <<
     <<17034, 12184>>, <<28983, 17553>>, <<46528, 64463>>, <<59829, 56229>>,
     <<14678, 49755>>, <<23025, 4593>>, <<37439, 33444>>, <<43804, 24277>>,
     <<55303, 43672>>, <<4739, 23297>>, <<9265, 34238>>, <<21772, 32195>>,
     <<29374, 23924>>, <<32990, 45566>>, <<39900, 1703>>, <<49563, 61812>>,
     <<58523, 27073>>, <<61374, 18310>>, <<4033, 40390>>, <<9228, 41420>>,
     <<11753, 11375>>, <<19060, 33962>>, <<23728, 43484>>, <<30457, 35034>>,
     <<38974, 20818>>, <<43057, 50797>>, <<45059, 10184>>, <<48985, 32711>>,
     <<50912, 3059>>, <<54695, 37191>>, <<1738, 25425>>, <<5161, 10599>>,
     <<10167, 2693>>, <<11803, 8504>>, <<19756, 28156>>, <<21304, 3347>>,
     <<25866, 29524>>, <<30314, 2747>>, <<33218, 51502>>, <<37490, 11397>>,
     <<41663, 59553>>, <<43034, 26187>>, <<49739, 35696>>, <<51052, 20899>>,
     <<53650, 59417>>, <<54937, 1572>>, <<62478, 13701>>, <<4202, 41072>>,
     <<6564, 49430>>, <<7735, 27656>>, <<10056, 30540>>, <<13488, 48309>>,
     <<14620, 3251>>, <<20184, 43594>>, <<23452, 51791>>, <<26670, 28659>>,
     <<29839, 33518>>, <<30885, 25455>>, <<33992, 30740>>, <<36039, 520>>,
     <<37054, 65530>>, <<42064, 27883>>, <<48889, 41975>>, <<50801, 30962>>
  >>

\* initial hash value
SHA256_H0 ==
  <<
     <<27145, 58983>>, <<47975, 44677>>, <<15470, 62322>>, <<42319, 62778>>,
     <<20750, 21119>>, <<39685, 26764>>, <<8067, 55723>>, <<23520, 52505>>
  >>

KWords == AsSeq([t \in 1..64 |-> HalvesToWord(SHA256_K[t])])

H0Words == AsSeq([j \in 1..8 |-> HalvesToWord(SHA256_H0[j])])

\* number of zero bytes that follow the 0x80 byte
ZeroPadLen(n) == (119 - (n % 64)) % 64

Zeros(n) == AsSeq([i \in 1..n |-> 0])

\* the eight bytes of the message length in bits, most significant first
LengthBytes(n) ==
  <<0, 0, 0, (n \div 536870912) % 256, (n \div 2097152) % 256,
    (n \div 8192) % 256, (n \div 32) % 256, (n % 32) * 8>>

Pad(msg) == msg \o <<128>> \o Zeros(ZeroPadLen(Len(msg))) \o LengthBytes(Len(msg))

\* word t (1..16) of 64-byte block b (1..) of the padded message
BlockWord(padded, b, t) ==
  LET o == (b - 1) * 64 + (t - 1) * 4
  IN  Bits(padded[o + 1], 8) \o Bits(padded[o + 2], 8)
        \o Bits(padded[o + 3], 8) \o Bits(padded[o + 4], 8)

\* message schedule: W extended from its first 16 words to 64
RECURSIVE Schedule(_)
Schedule(W) ==
  IF Len(W) >= 64 THEN W
  ELSE LET t == Len(W) + 1
       IN  Schedule(Append(W, AddWords(<<SmallSigma1(W[t - 2]), W[t - 7],
                                         SmallSigma0(W[t - 15]), W[t - 16]>>)))

\* rounds t..64 of the compression function on working variables v = a..h
\* (the test on Len(v) makes TLC compute v at every round, not at the end)
RECURSIVE Rounds(_, _, _)
Rounds(v, W, t) ==
  IF Len(v) # 8 \/ t > 64 THEN v
  ELSE LET T1 == AddWords(<<v[8], BigSigma1(v[5]), Ch(v[5], v[6], v[7]),
                            KWords[t], W[t]>>)
           T2 == AddWords(<<BigSigma0(v[1]), Maj(v[1], v[2], v[3])>>)
       IN  Rounds(<<AddWords(<<T1, T2>>), v[1], v[2], v[3],
                    AddWords(<<v[4], T1>>), v[5], v[6], v[7]>>, W, t + 1)

Compress(H, padded, b) ==
  LET W == Schedule(AsSeq([t \in 1..16 |-> BlockWord(padded, b, t)]))
      v == Rounds(H, W, 1)
  IN  AsSeq([j \in 1..8 |-> AddWords(<<H[j], v[j]>>)])

RECURSIVE Blocks(_, _, _)
Blocks(H, padded, b) ==
  IF Len(H) # 8 \/ (b - 1) * 64 >= Len(padded) THEN H
  ELSE Blocks(Compress(H, padded, b), padded, b + 1)

\* the eight words of the SHA-256 digest of a byte sequence
Sha256Compute(msg) == Blocks(H0Words, Pad(msg), 1)

\* code point of the lower-case hexadecimal digit of d (0..15)
HexChar(d) == IF d < 10 THEN 48 + d ELSE 87 + d

Nibble(w, k) == w[4 * k - 3] * 8 + w[4 * k - 2] * 4 + w[4 * k - 1] * 2 + w[4 * k]

\* .hexdigest(): 64 lower-case hexadecimal characters
hexdigest(H) ==
  AsSeq([i \in 1..64 |->
           HexChar(Nibble(H[((i - 1) \div 8) + 1], ((i - 1) % 8) + 1))])

\* ------------------------------------------------------------------------
\* The texts and signatures the callers pass
\* ------------------------------------------------------------------------

\* ""
TextEmpty == <<>>
\* "abc"
TextAbc == <<97, 98, 99>>
\* "abd"
TextAbd == <<97, 98, 100>>
\* "é", two bytes in UTF-8
TextEAcute == <<233>>
\* "\ud800", a lone surrogate: a str that UTF-8 cannot encode
TextLoneSurrogate == <<55296>>
\* "Hello, Persistent World!"
TextHello ==
  <<72, 101, 108, 108, 111, 44, 32, 80, 101, 114, 115, 105, 115, 116, 101,
    110, 116, 32, 87, 111, 114, 108, 100, 33>>

Texts == {TextEmpty, TextAbc, TextAbd, TextEAcute, TextLoneSurrogate, TextHello}

EncodableTexts == {t \in Texts : Encodable(t)}

\* hexadecimal digests of the messages the runs hash, computed once
Sha256Table ==
  [m \in {encode(t) : t \in EncodableTexts} |-> hexdigest(Sha256Compute(m))]

\* hashlib.sha256(msg).hexdigest()
sha256_hexdigest(msg) ==
  IF msg \in DOMAIN Sha256Table THEN Sha256Table[msg]
  ELSE hexdigest(Sha256Compute(msg))

\* str.upper() on the characters of a hexadecimal digest
UpperHex(str) ==
  AsSeq([i \in 1..Len(str) |-> IF str[i] >= 97 THEN str[i] - 32 ELSE str[i]])

DigestAbc == sha256_hexdigest(encode(TextAbc))

\* signatures: two genuine digests, the empty str, a digest cut to 63
\* characters, a digest in upper case, and a str that is no digest at all
Signatures ==
  {DigestAbc, sha256_hexdigest(encode(TextEmpty)), TextEmpty,
   SubSeq(DigestAbc, 1, 63), UpperHex(DigestAbc), TextAbc}

\* the inputs of the run that uses the log and the helpers together
LogTexts == {TextEmpty, TextAbc, TextLoneSurrogate, TextHello}

LogSignatures == {DigestAbc, TextEmpty, SubSeq(DigestAbc, 1, 63)}

\* ------------------------------------------------------------------------
\* State
\* ------------------------------------------------------------------------

VARIABLES
  GLOBAL_PERSISTENT_CONTEXT,  \* the module-level list
  last,       \* the latest call of the single-threaded caller and its outcome
  calls,      \* history: the inputs of the PMLL calls made, in call order
  firstFp,    \* history: the first secure_data call of the run
  firstResp,  \* history: the first PMLL call of the run
  pc,         \* concurrent callers: the line of PMLL each is about to run
  input,      \* concurrent callers: input_data of the call in progress
  shown,      \* concurrent callers: the context the call's print displayed
  pos,        \* concurrent callers: length of the list right after own append
  started,    \* concurrent callers: number of calls each has begun
  issued      \* history: the inputs of the concurrent calls begun, in order

vars ==
  <<GLOBAL_PERSISTENT_CONTEXT, last, calls, firstFp, firstResp,
    pc, input, shown, pos, started, issued>>

seqVars == <<last, calls, firstFp, firstResp>>
concVars == <<pc, input, shown, pos, started, issued>>

\* ------------------------------------------------------------------------
\* The functions of src/testing.py
\* ------------------------------------------------------------------------

\* what a call does: returns val (exc = NoException) or raises exc
Returned(v) == [exc |-> NoException, val |-> v]

\* "PMLL processed: "
ProcessedPrefix ==
  <<80, 77, 76, 76, 32, 112, 114, 111, 99, 101, 115, 115, 101, 100, 58, 32>>

\* variant: the response also counts the entries of the list
persistent_memory_logic_loop_Counted(input_data) ==
  ProcessedPrefix \o input_data \o <<48 + Len(GLOBAL_PERSISTENT_CONTEXT)>>

persistent_memory_logic_loop(input_data) == ProcessedPrefix \o input_data

\* variant: the text hashed is the latest entry of the list, when it has one
secure_data_OfContext(data) ==
  LET n == Len(GLOBAL_PERSISTENT_CONTEXT)
      text == IF n = 0 THEN data ELSE GLOBAL_PERSISTENT_CONTEXT[n]
  IN  IF Encodable(text)
      THEN Returned(sha256_hexdigest(encode(text)))
      ELSE [exc |-> UnicodeEncodeError, val |-> <<>>]

\* variant: only the first 32 characters of the digest are returned
secure_data_Short(data) ==
  IF Encodable(data)
  THEN Returned(SubSeq(sha256_hexdigest(encode(data)), 1, 32))
  ELSE [exc |-> UnicodeEncodeError, val |-> <<>>]

secure_data(data) ==
  IF Encodable(data)
  THEN Returned(sha256_hexdigest(encode(data)))
  ELSE [exc |-> UnicodeEncodeError, val |-> <<>>]

\* variant: the comparison ignores the case of the hexadecimal digits
verify_data_IgnoreCase(data, signature) ==
  IF Encodable(data)
  THEN Returned(UpperHex(sha256_hexdigest(encode(data))) = UpperHex(signature))
  ELSE [exc |-> UnicodeEncodeError, val |-> FALSE]

\* variant: a signature that is not 64 characters long is rejected
verify_data_StrictLength(data, signature) ==
  IF ~Encodable(data) THEN [exc |-> UnicodeEncodeError, val |-> FALSE]
  ELSE IF Len(signature) # 64 THEN [exc |-> "ValueError", val |-> FALSE]
  ELSE Returned(sha256_hexdigest(encode(data)) = signature)

verify_data(data, signature) ==
  IF Encodable(data)
  THEN Returned(sha256_hexdigest(encode(data)) = signature)
  ELSE [exc |-> UnicodeEncodeError, val |-> FALSE]

Callers == 1..NumCallers

NoCall ==
  [op |-> "none", data |-> <<>>, signature |-> <<>>, exc |-> NoException,
   str |-> <<>>, bool |-> FALSE, list |-> <<>>]

\* len: the length of the list when the call was made
NoFirst ==
  [set |-> FALSE, data |-> <<>>, exc |-> NoException, str |-> <<>>, len |-> 0]

Init ==
  /\ GLOBAL_PERSISTENT_CONTEXT = <<>>
  /\ last = NoCall
  /\ calls = <<>>
  /\ firstFp = NoFirst
  /\ firstResp = NoFirst
  /\ pc = [c \in Callers |-> "idle"]
  /\ input = [c \in Callers |-> <<>>]
  /\ shown = [c \in Callers |-> <<>>]
  /\ pos = [c \in Callers |-> 0]
  /\ started = [c \in Callers |-> 0]
  /\ issued = <<>>

\* ------------------------------------------------------------------------
\* A single-threaded caller
\* ------------------------------------------------------------------------

\* a PMLL call that leaves newContext in the list (used by the variants)
PMLL_Leaving(input_data, newContext) ==
  /\ Len(GLOBAL_PERSISTENT_CONTEXT) < MaxLog
  /\ GLOBAL_PERSISTENT_CONTEXT' = newContext
  /\ last' = [NoCall EXCEPT !.op = "PMLL", !.data = input_data,
                            !.list = GLOBAL_PERSISTENT_CONTEXT',
                            !.str = persistent_memory_logic_loop(input_data)]
  /\ calls' = Append(calls, input_data)
  /\ firstResp' = IF firstResp.set THEN firstResp
                  ELSE [NoFirst EXCEPT !.set = TRUE, !.data = input_data,
                                       !.str = last'.str,
                                       !.len = Len(GLOBAL_PERSISTENT_CONTEXT)]
  /\ UNCHANGED <<firstFp, concVars>>

\* variant: an input already in the list is not appended again
PMLL_SkipDuplicate(input_data) ==
  PMLL_Leaving(input_data,
    IF \E i \in 1..Len(GLOBAL_PERSISTENT_CONTEXT) :
         GLOBAL_PERSISTENT_CONTEXT[i] = input_data
    THEN GLOBAL_PERSISTENT_CONTEXT
    ELSE Append(GLOBAL_PERSISTENT_CONTEXT, input_data))

\* variant: the input is inserted at the front of the list
PMLL_Prepend(input_data) ==
  PMLL_Leaving(input_data, <<input_data>> \o GLOBAL_PERSISTENT_CONTEXT)

\* variant: the empty text is rejected
PMLL_RejectEmpty(input_data) ==
  /\ input_data # <<>>
  /\ PMLL_Leaving(input_data, Append(GLOBAL_PERSISTENT_CONTEXT, input_data))

\* result = PMLL(input_data): append, print the list, return the response
PMLL(input_data) ==
  /\ Len(GLOBAL_PERSISTENT_CONTEXT) < MaxLog
  /\ GLOBAL_PERSISTENT_CONTEXT' = Append(GLOBAL_PERSISTENT_CONTEXT, input_data)
  /\ last' = [NoCall EXCEPT !.op = "PMLL", !.data = input_data,
                            !.list = GLOBAL_PERSISTENT_CONTEXT',
                            !.str = persistent_memory_logic_loop(input_data)]
  /\ calls' = Append(calls, input_data)
  /\ firstResp' = IF firstResp.set THEN firstResp
                  ELSE [NoFirst EXCEPT !.set = TRUE, !.data = input_data,
                                       !.str = last'.str,
                                       !.len = Len(GLOBAL_PERSISTENT_CONTEXT)]
  /\ UNCHANGED <<firstFp, concVars>>

\* reading the module-level list
History ==
  /\ last' = [NoCall EXCEPT !.op = "history",
                            !.list = GLOBAL_PERSISTENT_CONTEXT]
  /\ UNCHANGED <<GLOBAL_PERSISTENT_CONTEXT, calls, firstFp, firstResp, concVars>>

\* variant: the fingerprinted text is also recorded in the list
Fingerprint_Logging(data) ==
  LET r == secure_data(data)
  IN  /\ last' = [NoCall EXCEPT !.op = "secure_data", !.data = data,
                                !.exc = r.exc, !.str = r.val]
      /\ firstFp' = IF firstFp.set THEN firstFp
                    ELSE [set |-> TRUE, data |-> data, exc |-> r.exc,
                          str |-> r.val,
                          len |-> Len(GLOBAL_PERSISTENT_CONTEXT)]
      /\ GLOBAL_PERSISTENT_CONTEXT' =
           IF Len(GLOBAL_PERSISTENT_CONTEXT) < MaxLog
           THEN Append(GLOBAL_PERSISTENT_CONTEXT, data)
           ELSE GLOBAL_PERSISTENT_CONTEXT
      /\ UNCHANGED <<calls, firstResp, concVars>>

\* secure_data(data)
Fingerprint(data) ==
  LET r == secure_data(data)
  IN  /\ last' = [NoCall EXCEPT !.op = "secure_data", !.data = data,
                                !.exc = r.exc, !.str = r.val]
      /\ firstFp' = IF firstFp.set THEN firstFp
                    ELSE [set |-> TRUE, data |-> data, exc |-> r.exc,
                          str |-> r.val,
                          len |-> Len(GLOBAL_PERSISTENT_CONTEXT)]
      /\ UNCHANGED <<GLOBAL_PERSISTENT_CONTEXT, calls, firstResp, concVars>>

\* verify_data(data, signature)
Verify(data, signature) ==
  LET r == verify_data(data, signature)
  IN  /\ last' = [NoCall EXCEPT !.op = "verify_data", !.data = data,
                                !.signature = signature,
                                !.exc = r.exc, !.bool = r.val]
      /\ UNCHANGED <<GLOBAL_PERSISTENT_CONTEXT, calls, firstFp, firstResp,
                     concVars>>

Next ==
  \/ \E x \in LogTexts : PMLL(x)
  \/ History
  \/ \E x \in LogTexts : Fingerprint(x)
  \/ \E x \in LogTexts, s \in LogSignatures : Verify(x, s)

Spec == Init /\ [][Next]_vars

\* the two helpers alone, on every text and signature
CheckerNext ==
  \/ \E x \in Texts : Fingerprint(x)
  \/ \E x \in Texts, s \in Signatures : Verify(x, s)

CheckerSpec == Init /\ [][CheckerNext]_vars

\* ------------------------------------------------------------------------
\* Several threads calling PMLL, one statement at a time
\* ------------------------------------------------------------------------

\* the inputs of the concurrent callers
ConcTexts == {TextAbc, TextAbd}

\* a thread calls PMLL(x)
Enter(c, x) ==
  /\ pc[c] = "idle"
  /\ started[c] < MaxCallsPerCaller
  /\ pc' = [pc EXCEPT ![c] = "append"]
  /\ input' = [input EXCEPT ![c] = x]
  /\ started' = [started EXCEPT ![c] = @ + 1]
  /\ issued' = Append(issued, x)
  /\ UNCHANGED <<GLOBAL_PERSISTENT_CONTEXT, shown, pos, seqVars>>

\* GLOBAL_PERSISTENT_CONTEXT.append(input_data)
AppendStep(c) ==
  /\ pc[c] = "append"
  /\ GLOBAL_PERSISTENT_CONTEXT' = Append(GLOBAL_PERSISTENT_CONTEXT, input[c])
  /\ pos' = [pos EXCEPT ![c] = Len(GLOBAL_PERSISTENT_CONTEXT')]
  /\ pc' = [pc EXCEPT ![c] = "print"]
  /\ UNCHANGED <<input, shown, started, issued, seqVars>>

\* print(..., GLOBAL_PERSISTENT_CONTEXT)
PrintStep(c) ==
  /\ pc[c] = "print"
  /\ shown' = [shown EXCEPT ![c] = GLOBAL_PERSISTENT_CONTEXT]
  /\ pc' = [pc EXCEPT ![c] = "return"]
  /\ UNCHANGED <<GLOBAL_PERSISTENT_CONTEXT, input, pos, started, issued, seqVars>>

\* return persistent_memory_logic_loop(input_data)
ReturnStep(c) ==
  /\ pc[c] = "return"
  /\ pc' = [pc EXCEPT ![c] = "idle"]
  /\ shown' = [shown EXCEPT ![c] = <<>>]
  /\ pos' = [pos EXCEPT ![c] = 0]
  /\ UNCHANGED <<GLOBAL_PERSISTENT_CONTEXT, input, started, issued, seqVars>>

ConcNext ==
  \/ \E c \in Callers, x \in ConcTexts : Enter(c, x)
  \/ \E c \in Callers : AppendStep(c)
  \/ \E c \in Callers : PrintStep(c)
  \/ \E c \in Callers : ReturnStep(c)

ConcSpec == Init /\ [][ConcNext]_vars

\* ------------------------------------------------------------------------
\* Properties
\* ------------------------------------------------------------------------

IsPrefix(a, b) == Len(a) <= Len(b) /\ SubSeq(b, 1, Len(a)) = a

\* sub occurs in str as a contiguous run of characters
Contains(str, sub) ==
  \E i \in 0..(Len(str) - Len(sub)) : SubSeq(str, i + 1, i + Len(sub)) = sub

IsHexDigit(ch) == (ch >= 48 /\ ch <= 57) \/ (ch >= 97 /\ ch <= 102)

Count(seq, x) == Cardinality({i \in 1..Len(seq) : seq[i] = x})

\* the digest secure_data returns for an encodable text
DigestOf(data) == secure_data(data).val

\* C1: after any sequence of PMLL calls the list holds exactly the inputs of
\* those calls, in call order, one entry per call, duplicates included.
C1_LogIsCallSequence == GLOBAL_PERSISTENT_CONTEXT = calls

\* C1 witness: the same input recorded twice and both entries kept
C1_Witness ==
  /\ Len(calls) = 3
  /\ calls[1] = TextAbc /\ calls[2] = TextHello /\ calls[3] = TextAbc
  /\ GLOBAL_PERSISTENT_CONTEXT = <<TextAbc, TextHello, TextAbc>>

\* C2: every PMLL call makes the list one longer and keeps every earlier
\* entry at its position; no step removes or reorders an entry.
C2_AppendOnly ==
  [][/\ IsPrefix(GLOBAL_PERSISTENT_CONTEXT, GLOBAL_PERSISTENT_CONTEXT')
     /\ calls' # calls =>
          Len(GLOBAL_PERSISTENT_CONTEXT') = Len(GLOBAL_PERSISTENT_CONTEXT) + 1
    ]_vars

\* C2 witness: a PMLL call made on a list that already held two entries
C2_Witness ==
  /\ last.op = "PMLL"
  /\ Len(GLOBAL_PERSISTENT_CONTEXT) = 3
  /\ GLOBAL_PERSISTENT_CONTEXT[1] # GLOBAL_PERSISTENT_CONTEXT[2]

\* C3 as stated: for every text and every signature verify_data returns
\* TRUE if the signature is the text's fingerprint and FALSE otherwise.
C3_Original ==
  last.op = "verify_data" =>
    LET f == secure_data(last.data)
    IN  /\ last.exc = NoException
        /\ last.bool = (f.exc = NoException /\ f.val = last.signature)

\* C3 amended: for every text UTF-8 can encode and every signature
\* verify_data returns TRUE if the signature equals secure_data(text) and
\* FALSE otherwise; for a text with a lone surrogate secure_data and
\* verify_data both raise UnicodeEncodeError.
C3_VerifyIffFingerprint ==
  last.op = "verify_data" =>
    IF Encodable(last.data)
    THEN /\ last.exc = NoException
         /\ secure_data(last.data).exc = NoException
         /\ last.bool = (DigestOf(last.data) = last.signature)
    ELSE /\ last.exc = UnicodeEncodeError
         /\ secure_data(last.data).exc = UnicodeEncodeError

\* C3 witness: verify_data("abc", secure_data("abc")) returned TRUE
C3_Witness ==
  /\ last.op = "verify_data"
  /\ last.data = TextAbc
  /\ last.signature = DigestAbc
  /\ last.exc = NoException
  /\ last.bool = TRUE

\* C4 as stated: every verify_data call completes, whatever the text and the
\* signature, and a mismatch is the boolean FALSE.
C4_Original ==
  last.op = "verify_data" =>
    /\ last.exc = NoException
    /\ (~(Encodable(last.data) /\ DigestOf(last.data) = last.signature)
          => last.bool = FALSE)

\* C4 amended: for every text UTF-8 can encode and every signature, also an
\* empty one or one of the wrong length, verify_data completes, returns FALSE
\* on a mismatch and changes no state; for a text with a lone surrogate it
\* raises UnicodeEncodeError, also without changing state.
C4_MismatchIsFalse ==
  [][last'.op = "verify_data" =>
       /\ GLOBAL_PERSISTENT_CONTEXT' = GLOBAL_PERSISTENT_CONTEXT
       /\ IF Encodable(last'.data)
          THEN /\ last'.exc = NoException
               /\ (DigestOf(last'.data) # last'.signature => last'.bool = FALSE)
          ELSE last'.exc = UnicodeEncodeError
    ]_vars

\* C4 witness: a signature one character short was answered FALSE
C4_Witness ==
  /\ last.op = "verify_data"
  /\ last.data = TextAbc
  /\ last.signature = SubSeq(DigestAbc, 1, 63)
  /\ last.exc = NoException
  /\ last.bool = FALSE
  /\ Len(GLOBAL_PERSISTENT_CONTEXT) = 2

\* C5: a secure_data call has the outcome of the first secure_data call made
\* with the same text, whatever calls were made and whatever the list held
\* in between.
C5_FingerprintPure ==
  (last.op = "secure_data" /\ firstFp.set /\ firstFp.data = last.data) =>
    (last.exc = firstFp.exc /\ last.str = firstFp.str)

\* C5 witness: the same text fingerprinted again after the list had grown
C5_Witness ==
  /\ last.op = "secure_data"
  /\ firstFp.set
  /\ firstFp.data = TextAbc
  /\ last.data = TextAbc
  /\ firstFp.len = 0
  /\ Len(GLOBAL_PERSISTENT_CONTEXT) = 2

\* C6: the response of a PMLL call contains the input, and is the response
\* the first PMLL call with that input returned, whatever the list held.
C6_ResponseOfInputAlone ==
  last.op = "PMLL" =>
    /\ Contains(last.str, last.data)
    /\ ((firstResp.set /\ firstResp.data = last.data) => last.str = firstResp.str)

\* C6 witness: "Hello, Persistent World!" recorded a second time
C6_Witness ==
  /\ last.op = "PMLL"
  /\ last.data = TextHello
  /\ firstResp.data = TextHello
  /\ Len(GLOBAL_PERSISTENT_CONTEXT) = 3

\* C7: only a PMLL call changes the list; secure_data, verify_data and
\* reading the list leave it as it is.
C7_OnlyPMLLChangesLog ==
  [][GLOBAL_PERSISTENT_CONTEXT' # GLOBAL_PERSISTENT_CONTEXT =>
       (last'.op = "PMLL" /\ calls' # calls)]_vars

\* C7 witness: a fingerprint taken while the list held two entries
C7_Witness ==
  /\ last.op = "secure_data"
  /\ last.data = TextHello
  /\ Len(GLOBAL_PERSISTENT_CONTEXT) = 2

C9_AppendAndRespondSerialized ==
  /\ \A c \in Callers :
       pc[c] = "return" =>
         /\ Len(shown[c]) = pos[c]
         /\ shown[c][pos[c]] = input[c]
  /\ (\A c \in Callers : pc[c] = "idle") =>
       \A x \in ConcTexts : Count(GLOBAL_PERSISTENT_CONTEXT, x) = Count(issued, x)

\* C10 as stated: secure_data returns 64 hexadecimal characters for every
\* text, and different texts get different fingerprints.
C10_Original ==
  last.op = "secure_data" =>
    /\ last.exc = NoException
    /\ Len(last.str) = 64
    /\ \A i \in 1..Len(last.str) : IsHexDigit(last.str[i])
    /\ ((firstFp.set /\ firstFp.data # last.data) => firstFp.str # last.str)

\* C10 amended: for every text UTF-8 can encode secure_data returns 64
\* lower-case hexadecimal characters, and two different such texts of the
\* corpus get different fingerprints; a text with a lone surrogate has no
\* fingerprint (UnicodeEncodeError).
C10_FixedLengthNoCollision ==
  last.op = "secure_data" =>
    IF Encodable(last.data)
    THEN /\ last.exc = NoException
         /\ Len(last.str) = 64
         /\ \A i \in 1..Len(last.str) : IsHexDigit(last.str[i])
         /\ ((firstFp.set /\ Encodable(firstFp.data)
                /\ firstFp.data # last.data) => firstFp.str # last.str)
    ELSE last.exc = UnicodeEncodeError

\* C10 witness: "abd" fingerprinted after "abc"
C10_Witness ==
  /\ last.op = "secure_data"
  /\ firstFp.set
  /\ firstFp.data = TextAbc
  /\ last.data = TextAbd
  /\ Len(last.str) = 64

====
